---- MODULE Spec2Model ----
(***************************************************************************)
(* Salon management backend (Flask + Flask-SQLAlchemy over SQLite).        *)
(* The state is the content of the five tables of salon.db, the wall clock *)
(* read by datetime.utcnow, the request being answered and its response.   *)
(* Every route of routes.py is one action.  Spec runs the requests one     *)
(* after the other; SpecConc lets two PUT requests overlap between their   *)
(* SELECT (get_or_404) and their UPDATE (db.session.commit).               *)
(*                                                                         *)
(* JSON typing of the request bodies: text fields carry strings, numeric   *)
(* fields carry naturals.  Python None / JSON null / SQL NULL is written   *)
(* None in a text field and NoneNum in a numeric field.                    *)
(***************************************************************************)
EXTENDS Integers, Sequences, FiniteSets, TLC

VARIABLES db, now, req, resp, workers

vars == <<db, now, req, resp, workers>>

\* ---------------------------------------------------------------- bounds
\* Largest primary key a table may hand out, and largest id put in a URL.
MaxId == 2
\* Number of requests served (the clock advances by one per request).
MaxClock == 3

\* ------------------------------------------------------------ JSON values
None == "None"
NoneNum == 0 - 1

Tables == {"clients", "stylists", "services", "appointments", "invoices"}

NumericFields ==
    {"id", "client_id", "stylist_id", "service_id", "appointment_id",
     "duration", "price", "total_amount", "created_at", "paid_at"}

\* Python truthiness of data.get(field): absent, None, "" and 0 are falsy.
Falsy(field, v) ==
    IF field \in NumericFields THEN v \in {0, NoneNum} ELSE v \in {"", None}

\* dict.get(key, default)
Get(data, key, default) == IF key \in DOMAIN data THEN data[key] ELSE default

\* The characters of the strings the requests use (a Python str is a
\* sequence of characters; TLC strings are atomic).
Chars(s) ==
    CASE s = "555-1111" -> <<"5", "5", "5", "-", "1", "1", "1", "1">>
      [] s = "555-2222" -> <<"5", "5", "5", "-", "2", "2", "2", "2">>
      [] s = "555-CALL" -> <<"5", "5", "5", "-", "C", "A", "L", "L">>
      [] s = "a@b.co" -> <<"a", "@", "b", ".", "c", "o">>
      [] s = "c@d.io" -> <<"c", "@", "d", ".", "i", "o">>
      [] s = "not-an-email" -> <<"n", "o", "t", "-", "a", "n", "-", "e", "m", "a", "i", "l">>
      [] s = "2024-06-01" -> <<"2", "0", "2", "4", "-", "0", "6", "-", "0", "1">>
      [] s = "2024-6-1" -> <<"2", "0", "2", "4", "-", "6", "-", "1">>
      [] s = "15-03-2024" -> <<"1", "5", "-", "0", "3", "-", "2", "0", "2", "4">>
      [] s = "2024-07-02" -> <<"2", "0", "2", "4", "-", "0", "7", "-", "0", "2">>
      [] s = "2024-02-30" -> <<"2", "0", "2", "4", "-", "0", "2", "-", "3", "0">>
      [] s = "10:00:00" -> <<"1", "0", ":", "0", "0", ":", "0", "0">>
      [] s = "9:5:3" -> <<"9", ":", "5", ":", "3">>
      [] s = "2:30 PM" -> <<"2", ":", "3", "0", " ", "P", "M">>
      [] s = "11:30:00" -> <<"1", "1", ":", "3", "0", ":", "0", "0">>
      [] OTHER -> <<>>

Digits == <<"0", "1", "2", "3", "4", "5", "6", "7", "8", "9">>
IsDigit(c) == \E i \in 1..10 : Digits[i] = c
DigitVal(c) == (CHOOSE i \in 1..10 : Digits[i] = c) - 1
Letters ==
    {"a", "b", "c", "d", "e", "f", "g", "h", "i", "j", "k", "l", "m",
     "n", "o", "p", "q", "r", "s", "t", "u", "v", "w", "x", "y", "z",
     "A", "B", "C", "D", "E", "F", "G", "H", "I", "J", "K", "L", "M",
     "N", "O", "P", "Q", "R", "S", "T", "U", "V", "W", "X", "Y", "Z"}
\* regex \w
IsWord(c) == c \in Letters \/ IsDigit(c) \/ c = "_"
\* regex \s
IsSpace(c) == c \in {" ", "\t", "\n", "\r"}

\* "$" also matches just before a final newline.
BeforeDollar(cs) ==
    IF Len(cs) > 0 /\ cs[Len(cs)] = "\n" THEN SubSeq(cs, 1, Len(cs) - 1) ELSE cs

\* ------------------------------------------------------ validation helpers
MissingRequired(field) ==
    CASE field = "name" -> "Missing required field: name"
      [] field = "phone" -> "Missing required field: phone"
      [] field = "email" -> "Missing required field: email"
      [] field = "specialty" -> "Missing required field: specialty"
      [] field = "duration" -> "Missing required field: duration"
      [] field = "price" -> "Missing required field: price"
      [] field = "client_id" -> "Missing required field: client_id"
      [] field = "stylist_id" -> "Missing required field: stylist_id"
      [] field = "service_id" -> "Missing required field: service_id"
      [] field = "date" -> "Missing required field: date"
      [] field = "time" -> "Missing required field: time"
      [] field = "appointment_id" -> "Missing required field: appointment_id"
      [] field = "total_amount" -> "Missing required field: total_amount"
      [] field = "payment_method" -> "Missing required field: payment_method"

NoError == ""

\* for field in required_fields: if not data.get(field): return error
RECURSIVE validate_required_fields(_, _)
validate_required_fields(data, required_fields) ==
    IF required_fields = <<>> THEN NoError
    ELSE LET field == Head(required_fields) IN
         IF field \notin DOMAIN data \/ Falsy(field, data[field])
         THEN MissingRequired(field)
         ELSE validate_required_fields(data, Tail(required_fields))

IsEmailChar(c) == IsWord(c) \/ c = "." \/ c = "-"

AllEmailChars(cs, lo, hi) == \A i \in lo..hi : IsEmailChar(cs[i])

AllWordChars(cs, lo, hi) == \A i \in lo..hi : IsWord(cs[i])

\* re.match(r'^[\w\.-]+@[\w\.-]+\.\w+$', email)
EmailMatches(cs) ==
    \E at \in 2..Len(cs) : \E dot \in (at + 2)..(Len(cs) - 1) :
        /\ cs[at] = "@"
        /\ cs[dot] = "."
        /\ AllEmailChars(cs, 1, at - 1)
        /\ AllEmailChars(cs, at + 1, dot - 1)
        /\ AllWordChars(cs, dot + 1, Len(cs))

validate_email_format(email) ==
    IF Falsy("email", email) THEN TRUE
    ELSE EmailMatches(BeforeDollar(Chars(email)))

IsPhoneChar(c) == IsDigit(c) \/ IsSpace(c) \/ c \in {"-", "(", ")"}

\* re.match(r'^[\d\-\s\(\)]+$', phone)
PhoneMatches(cs) == Len(cs) >= 1 /\ \A i \in 1..Len(cs) : IsPhoneChar(cs[i])

validate_phone_format(phone) ==
    IF Falsy("phone", phone) THEN TRUE
    ELSE LET cs == Chars(phone) IN
         PhoneMatches(cs) \/ PhoneMatches(BeforeDollar(cs))

\* ------------------------------------------------- datetime.strptime
RECURSIVE Split(_, _)
Split(cs, sep) ==
    IF \A i \in 1..Len(cs) : cs[i] # sep THEN <<cs>>
    ELSE LET k == CHOOSE i \in 1..Len(cs) :
                      cs[i] = sep /\ \A j \in 1..(i - 1) : cs[j] # sep
         IN <<SubSeq(cs, 1, k - 1)>> \o Split(SubSeq(cs, k + 1, Len(cs)), sep)

AllDigits(cs) == \A i \in 1..Len(cs) : IsDigit(cs[i])

RECURSIVE NumVal(_)
NumVal(cs) ==
    IF cs = <<>> THEN 0
    ELSE 10 * NumVal(SubSeq(cs, 1, Len(cs) - 1)) + DigitVal(cs[Len(cs)])

\* A directive written with one or two digits: value in lo..hi.
OneOrTwoDigits(cs, lo, hi) ==
    /\ Len(cs) \in {1, 2}
    /\ AllDigits(cs)
    /\ NumVal(cs) \in lo..hi

IsLeap(y) == (y % 4 = 0 /\ y % 100 # 0) \/ y % 400 = 0

DaysInMonth(y, m) ==
    IF m = 2 THEN (IF IsLeap(y) THEN 29 ELSE 28)
    ELSE IF m \in {4, 6, 9, 11} THEN 30 ELSE 31

\* %d also takes a space followed by one digit.
DayDirective(cs) ==
    \/ OneOrTwoDigits(cs, 1, 31)
    \/ Len(cs) = 2 /\ cs[1] = " " /\ IsDigit(cs[2]) /\ cs[2] # "0"

DayVal(cs) == IF cs[1] = " " THEN DigitVal(cs[2]) ELSE NumVal(cs)

ValueError == [ok |-> FALSE]

\* datetime.strptime(s, "%Y-%m-%d").date()
strptime_date(s) ==
    LET parts == Split(Chars(s), "-") IN
    IF /\ Len(parts) = 3
       /\ Len(parts[1]) = 4 /\ AllDigits(parts[1]) /\ NumVal(parts[1]) >= 1
       /\ OneOrTwoDigits(parts[2], 1, 12)
       /\ DayDirective(parts[3])
       /\ DayVal(parts[3]) <= DaysInMonth(NumVal(parts[1]), NumVal(parts[2]))
    THEN [ok |-> TRUE,
          value |-> [year |-> NumVal(parts[1]), month |-> NumVal(parts[2]),
                     day |-> DayVal(parts[3])]]
    ELSE ValueError

\* datetime.strptime(s, "%H:%M:%S").time()
strptime_time(s) ==
    LET parts == Split(Chars(s), ":") IN
    IF /\ Len(parts) = 3
       /\ OneOrTwoDigits(parts[1], 0, 23)
       /\ OneOrTwoDigits(parts[2], 0, 59)
       /\ OneOrTwoDigits(parts[3], 0, 59)
    THEN [ok |-> TRUE,
          value |-> [hour |-> NumVal(parts[1]), minute |-> NumVal(parts[2]),
                     second |-> NumVal(parts[3])]]
    ELSE ValueError

TwoDigits(n) == <<Digits[(n \div 10) + 1], Digits[(n % 10) + 1]>>

FourDigits(n) == TwoDigits(n \div 100) \o TwoDigits(n % 100)

\* date.isoformat(): YYYY-MM-DD
date_isoformat(d) ==
    FourDigits(d.year) \o <<"-">> \o TwoDigits(d.month) \o <<"-">> \o TwoDigits(d.day)

\* time.isoformat(): HH:MM:SS
time_isoformat(t) ==
    TwoDigits(t.hour) \o <<":">> \o TwoDigits(t.minute) \o <<":">> \o TwoDigits(t.second)

\* ------------------------------------------------------------------ schema
\* Rows are records of the columns other than id; a table maps id to row.
\* nullable=False columns
NotNull(tbl) ==
    CASE tbl = "clients" -> {"name"}
      [] tbl = "stylists" -> {"name"}
      [] tbl = "services" -> {"name"}
      [] tbl = "appointments" ->
             {"client_id", "stylist_id", "service_id", "date", "time"}
      [] tbl = "invoices" -> {"appointment_id", "total_amount"}

\* unique=True columns
UniqueColumns(tbl) == IF tbl = "invoices" THEN {"appointment_id"} ELSE {}

\* db.relationship(...) of the parent side: the child table and its
\* foreign-key column.  No cascade option is given on any of them.
Relationships(tbl) ==
    CASE tbl = "clients" -> {[table |-> "appointments", fk |-> "client_id"]}
      [] tbl = "stylists" -> {[table |-> "appointments", fk |-> "stylist_id"]}
      [] tbl = "services" -> {[table |-> "appointments", fk |-> "service_id"]}
      [] tbl = "appointments" -> {[table |-> "invoices", fk |-> "appointment_id"]}
      [] tbl = "invoices" -> {}

\* SQLite is opened with its defaults: PRAGMA foreign_keys is off, so a
\* ForeignKey column is stored without looking up the referenced row.
ForeignKeysEnforced == FALSE

ForeignKeys(tbl) ==
    CASE tbl = "appointments" ->
             {[col |-> "client_id", ref |-> "clients"],
              [col |-> "stylist_id", ref |-> "stylists"],
              [col |-> "service_id", ref |-> "services"]}
      [] tbl = "invoices" -> {[col |-> "appointment_id", ref |-> "appointments"]}
      [] OTHER -> {}

IsNull(col, v) ==
    IF col \in NumericFields THEN v = NoneNum
    ELSE IF col \in {"date", "time", "portfolio_images"} THEN FALSE
    ELSE v = None

SetMax(S) == CHOOSE m \in S : \A x \in S : x <= m

\* INTEGER PRIMARY KEY without AUTOINCREMENT: largest rowid plus one.
NextId(table) == IF DOMAIN table = {} THEN 1 ELSE SetMax(DOMAIN table) + 1

Extend(table, id, row) ==
    [i \in DOMAIN table \cup {id} |-> IF i = id THEN row ELSE table[i]]

Remove(table, id) == [i \in DOMAIN table \ {id} |-> table[i]]

NotNullError == "IntegrityError: NOT NULL constraint failed"
UniqueError == "IntegrityError: UNIQUE constraint failed"
ForeignKeyError == "IntegrityError: FOREIGN KEY constraint failed"
StaleDataError == "StaleDataError: UPDATE statement expected to match 1 row"
ObjectDeletedError == "ObjectDeletedError: instance has been deleted"
NotFound == "404 Not Found"

\* Mutant: the columns are declared without nullable=False.
NotNullNeverViolated(tbl, row, cols) == FALSE

NotNullViolated(tbl, row, cols) ==
    \E col \in cols \cap NotNull(tbl) : IsNull(col, row[col])

\* Mutant: appointment_id is declared without unique=True.
UniqueNeverViolated(d, tbl, row) == FALSE

UniqueViolated(d, tbl, row) ==
    \E col \in UniqueColumns(tbl) : \E i \in DOMAIN d[tbl] :
        d[tbl][i][col] = row[col]

ForeignKeyViolated(d, tbl, row, cols) ==
    /\ ForeignKeysEnforced
    /\ \E fk \in ForeignKeys(tbl) :
          fk.col \in cols /\ row[fk.col] \notin DOMAIN d[fk.ref]

\* session.add(row); the INSERT of session.commit()
FlushInsert(d, tbl, row) ==
    IF NotNullViolated(tbl, row, DOMAIN row)
    THEN [ok |-> FALSE, error |-> NotNullError, db |-> d, id |-> 0]
    ELSE IF UniqueViolated(d, tbl, row)
    THEN [ok |-> FALSE, error |-> UniqueError, db |-> d, id |-> 0]
    ELSE IF ForeignKeyViolated(d, tbl, row, DOMAIN row)
    THEN [ok |-> FALSE, error |-> ForeignKeyError, db |-> d, id |-> 0]
    ELSE [ok |-> TRUE, error |-> NoError,
          db |-> [d EXCEPT ![tbl] = Extend(@, NextId(@), row)],
          id |-> NextId(d[tbl])]

\* The columns the unit of work puts in the UPDATE: those whose value
\* differs from the value loaded by the SELECT.
ChangedColumns(loaded, obj) == {col \in DOMAIN obj : obj[col] # loaded[col]}

\* Mutant: the UPDATE writes every column of the session object, not only
\* the changed ones.
FlushUpdateWholeRow(d, tbl, id, loaded, obj) ==
    IF id \notin DOMAIN d[tbl]
    THEN [ok |-> FALSE, error |-> StaleDataError, db |-> d]
    ELSE IF NotNullViolated(tbl, obj, DOMAIN obj)
    THEN [ok |-> FALSE, error |-> NotNullError, db |-> d]
    ELSE [ok |-> TRUE, error |-> NoError, db |-> [d EXCEPT ![tbl][id] = obj]]

\* The UPDATE of session.commit() for a row loaded as `loaded` and now `obj`.
FlushUpdate(d, tbl, id, loaded, obj) ==
    LET changed == ChangedColumns(loaded, obj) IN
    IF changed = {} THEN [ok |-> TRUE, error |-> NoError, db |-> d]
    ELSE IF id \notin DOMAIN d[tbl]
    THEN [ok |-> FALSE, error |-> StaleDataError, db |-> d]
    ELSE IF NotNullViolated(tbl, obj, changed)
    THEN [ok |-> FALSE, error |-> NotNullError, db |-> d]
    ELSE IF ForeignKeyViolated(d, tbl, obj, changed)
    THEN [ok |-> FALSE, error |-> ForeignKeyError, db |-> d]
    ELSE [ok |-> TRUE, error |-> NoError,
          db |-> [d EXCEPT ![tbl][id] =
                     [col \in DOMAIN @ |->
                         IF col \in changed THEN obj[col] ELSE @[col]]]]

Children(d, rel, id) == {i \in DOMAIN d[rel.table] : d[rel.table][i][rel.fk] = id}

\* session.delete(row); session.commit().  For each relationship without
\* cascade the unit of work first sets the children's foreign key to NULL,
\* then deletes the parent row.
FlushDelete(d, tbl, id) ==
    IF \E rel \in Relationships(tbl) :
          Children(d, rel, id) # {} /\ rel.fk \in NotNull(rel.table)
    THEN [ok |-> FALSE, error |-> NotNullError, db |-> d]
    ELSE LET nulled ==
                 [t \in DOMAIN d |->
                     [i \in DOMAIN d[t] |->
                         IF \E rel \in Relationships(tbl) :
                               rel.table = t /\ i \in Children(d, rel, id)
                         THEN LET rel == CHOOSE r \in Relationships(tbl) : r.table = t
                              IN [d[t][i] EXCEPT ![rel.fk] = NoneNum]
                         ELSE d[t][i]]]
         IN [ok |-> TRUE, error |-> NoError,
             db |-> [nulled EXCEPT ![tbl] = Remove(@, id)]]

\* ------------------------------------------------------------- projections
ClientToJson(id, c) ==
    [id |-> id, name |-> c.name, phone |-> c.phone, email |-> c.email,
     created_at |-> c.created_at]

StylistToJson(id, s) ==
    [id |-> id, name |-> s.name, specialty |-> s.specialty, email |-> s.email,
     phone |-> s.phone, portfolio_images |-> s.portfolio_images]

ServiceToJson(id, s) ==
    [id |-> id, name |-> s.name, duration |-> s.duration, price |-> s.price]

AppointmentToJson(id, a) ==
    [id |-> id, client_id |-> a.client_id, stylist_id |-> a.stylist_id,
     service_id |-> a.service_id, date |-> date_isoformat(a.date),
     time |-> time_isoformat(a.time), status |-> a.status]

InvoiceToJson(id, i) ==
    [id |-> id, appointment_id |-> i.appointment_id,
     total_amount |-> i.total_amount, payment_method |-> i.payment_method,
     paid_at |-> i.paid_at]

to_json(tbl, id, row) ==
    CASE tbl = "clients" -> ClientToJson(id, row)
      [] tbl = "stylists" -> StylistToJson(id, row)
      [] tbl = "services" -> ServiceToJson(id, row)
      [] tbl = "appointments" -> AppointmentToJson(id, row)
      [] tbl = "invoices" -> InvoiceToJson(id, row)

RECURSIVE IdsInOrder(_)
IdsInOrder(S) ==
    IF S = {} THEN <<>>
    ELSE LET m == SetMax(S) IN Append(IdsInOrder(S \ {m}), m)

\* Model.query.all() then [row.to_json() for row in rows]
QueryAll(d, tbl) ==
    LET ids == IdsInOrder(DOMAIN d[tbl]) IN
    [k \in 1..Len(ids) |-> to_json(tbl, ids[k], d[tbl][ids[k]])]

\* ---------------------------------------------------------------- handlers
\* What a handler leaves behind: the store and the (body, status) it returns.
Reply(d, status, body) == [db |-> d, resp |-> [status |-> status, body |-> body]]

ErrorBody(msg) == [error |-> msg]

\* except Exception as e: db.session.rollback(); return {"error": str(e)}, 500
\* `d` is the store as the transaction found it.
RollbackAnd500(d, msg) == Reply(d, 500, ErrorBody(msg))

\* db.session.add(row); db.session.commit(); return row.to_json(), 201
AddAndCommit(d, tbl, row) ==
    LET flush == FlushInsert(d, tbl, row) IN
    IF flush.ok
    THEN Reply(flush.db, 201, to_json(tbl, flush.id, flush.db[tbl][flush.id]))
    ELSE RollbackAnd500(d, flush.error)

\* Mutant: the phone format check is left out.
CreateClientResultNoPhoneCheck(d, t, data) ==
    LET validation_error ==
            validate_required_fields(data, <<"name", "phone", "email">>)
    IN
    IF validation_error # NoError THEN Reply(d, 400, ErrorBody(validation_error))
    ELSE IF ~validate_email_format(data.email)
    THEN Reply(d, 400, ErrorBody("Invalid email format"))
    ELSE AddAndCommit(d, "clients",
             [name |-> data.name, phone |-> data.phone, email |-> data.email,
              created_at |-> t])

CreateClientResult(d, t, data) ==
    LET validation_error ==
            validate_required_fields(data, <<"name", "phone", "email">>)
    IN
    IF validation_error # NoError THEN Reply(d, 400, ErrorBody(validation_error))
    ELSE IF ~validate_email_format(data.email)
    THEN Reply(d, 400, ErrorBody("Invalid email format"))
    ELSE IF ~validate_phone_format(data.phone)
    THEN Reply(d, 400, ErrorBody("Invalid phone format"))
    ELSE AddAndCommit(d, "clients",
             [name |-> data.name, phone |-> data.phone, email |-> data.email,
              created_at |-> t])

\* Mutant: the phone format is checked before the email format.
CreateStylistResultPhoneFirst(d, t, data) ==
    LET validation_error ==
            validate_required_fields(data, <<"name", "specialty", "email", "phone">>)
    IN
    IF validation_error # NoError THEN Reply(d, 400, ErrorBody(validation_error))
    ELSE IF ~validate_phone_format(data.phone)
    THEN Reply(d, 400, ErrorBody("Invalid phone format"))
    ELSE IF ~validate_email_format(data.email)
    THEN Reply(d, 400, ErrorBody("Invalid email format"))
    ELSE AddAndCommit(d, "stylists",
             [name |-> data.name, specialty |-> data.specialty,
              email |-> data.email, phone |-> data.phone,
              portfolio_images |-> Get(data, "portfolio_images", <<>>)])

CreateStylistResult(d, t, data) ==
    LET validation_error ==
            validate_required_fields(data, <<"name", "specialty", "email", "phone">>)
    IN
    IF validation_error # NoError THEN Reply(d, 400, ErrorBody(validation_error))
    ELSE IF ~validate_email_format(data.email)
    THEN Reply(d, 400, ErrorBody("Invalid email format"))
    ELSE IF ~validate_phone_format(data.phone)
    THEN Reply(d, 400, ErrorBody("Invalid phone format"))
    ELSE AddAndCommit(d, "stylists",
             [name |-> data.name, specialty |-> data.specialty,
              email |-> data.email, phone |-> data.phone,
              portfolio_images |-> Get(data, "portfolio_images", <<>>)])

CreateServiceResult(d, t, data) ==
    LET validation_error ==
            validate_required_fields(data, <<"name", "duration", "price">>)
    IN
    IF validation_error # NoError THEN Reply(d, 400, ErrorBody(validation_error))
    ELSE AddAndCommit(d, "services",
             [name |-> data.name, duration |-> data.duration, price |-> data.price])

\* Mutant: the status of the body is ignored, every appointment is "booked".
CreateAppointmentResultAlwaysBooked(d, t, data) ==
    LET validation_error ==
            validate_required_fields(data,
                <<"client_id", "stylist_id", "service_id", "date", "time">>)
    IN
    IF validation_error # NoError THEN Reply(d, 400, ErrorBody(validation_error))
    ELSE IF ~strptime_date(data.date).ok
    THEN Reply(d, 400, ErrorBody("Invalid date format. Use YYYY-MM-DD"))
    ELSE IF ~strptime_time(data.time).ok
    THEN Reply(d, 400, ErrorBody("Invalid time format. Use HH:MM:SS"))
    ELSE AddAndCommit(d, "appointments",
             [client_id |-> data.client_id, stylist_id |-> data.stylist_id,
              service_id |-> data.service_id,
              date |-> strptime_date(data.date).value,
              time |-> strptime_time(data.time).value,
              status |-> "booked"])

CreateAppointmentResult(d, t, data) ==
    LET validation_error ==
            validate_required_fields(data,
                <<"client_id", "stylist_id", "service_id", "date", "time">>)
    IN
    IF validation_error # NoError THEN Reply(d, 400, ErrorBody(validation_error))
    ELSE LET appointment_date == strptime_date(data.date)
             appointment_time == strptime_time(data.time)
         IN
         IF ~appointment_date.ok
         THEN Reply(d, 400, ErrorBody("Invalid date format. Use YYYY-MM-DD"))
         ELSE IF ~appointment_time.ok
         THEN Reply(d, 400, ErrorBody("Invalid time format. Use HH:MM:SS"))
         ELSE AddAndCommit(d, "appointments",
                  [client_id |-> data.client_id, stylist_id |-> data.stylist_id,
                   service_id |-> data.service_id,
                   date |-> appointment_date.value,
                   time |-> appointment_time.value,
                   status |-> Get(data, "status", "booked")])

CreateInvoiceResult(d, t, data) ==
    LET validation_error ==
            validate_required_fields(data,
                <<"appointment_id", "total_amount", "payment_method">>)
    IN
    IF validation_error # NoError THEN Reply(d, 400, ErrorBody(validation_error))
    ELSE AddAndCommit(d, "invoices",
             [appointment_id |-> data.appointment_id,
              total_amount |-> data.total_amount,
              payment_method |-> data.payment_method,
              paid_at |-> t])

\* The part of an update handler between get_or_404 and commit: status 0
\* when it reaches the commit, 400 when it returns early; obj is the row
\* object of the session as the handler leaves it.
Proceed(obj) == [status |-> 0, error |-> NoError, obj |-> obj]

Abort(msg, obj) == [status |-> 400, error |-> msg, obj |-> obj]

\* Mutant: every key of the body that names a column is assigned.
UpdateClientSessionAnyKey(client, data) ==
    IF "email" \in DOMAIN data /\ ~validate_email_format(data.email)
    THEN Abort("Invalid email format", client)
    ELSE IF "phone" \in DOMAIN data /\ ~validate_phone_format(data.phone)
    THEN Abort("Invalid phone format", client)
    ELSE Proceed([col \in DOMAIN client |-> Get(data, col, client[col])])

UpdateClientSession(client, data) ==
    IF "email" \in DOMAIN data /\ ~validate_email_format(data.email)
    THEN Abort("Invalid email format", client)
    ELSE IF "phone" \in DOMAIN data /\ ~validate_phone_format(data.phone)
    THEN Abort("Invalid phone format", client)
    ELSE Proceed([client EXCEPT
                     !.name = Get(data, "name", @),
                     !.phone = Get(data, "phone", @),
                     !.email = Get(data, "email", @)])

\* Mutant: data.get("specialty") without the old value as default.
UpdateStylistSessionNoDefault(stylist, data) ==
    IF "email" \in DOMAIN data /\ ~validate_email_format(data.email)
    THEN Abort("Invalid email format", stylist)
    ELSE IF "phone" \in DOMAIN data /\ ~validate_phone_format(data.phone)
    THEN Abort("Invalid phone format", stylist)
    ELSE Proceed([stylist EXCEPT
                     !.name = Get(data, "name", @),
                     !.specialty = Get(data, "specialty", None),
                     !.email = Get(data, "email", @),
                     !.phone = Get(data, "phone", @),
                     !.portfolio_images = Get(data, "portfolio_images", @)])

UpdateStylistSession(stylist, data) ==
    IF "email" \in DOMAIN data /\ ~validate_email_format(data.email)
    THEN Abort("Invalid email format", stylist)
    ELSE IF "phone" \in DOMAIN data /\ ~validate_phone_format(data.phone)
    THEN Abort("Invalid phone format", stylist)
    ELSE Proceed([stylist EXCEPT
                     !.name = Get(data, "name", @),
                     !.specialty = Get(data, "specialty", @),
                     !.email = Get(data, "email", @),
                     !.phone = Get(data, "phone", @),
                     !.portfolio_images = Get(data, "portfolio_images", @)])

UpdateServiceSession(service, data) ==
    Proceed([service EXCEPT
                !.name = Get(data, "name", @),
                !.duration = Get(data, "duration", @),
                !.price = Get(data, "price", @)])

UpdateAppointmentSession(appointment, data) ==
    LET new_date == IF "date" \in DOMAIN data
                    THEN strptime_date(data.date) ELSE ValueError
        new_time == IF "time" \in DOMAIN data
                    THEN strptime_time(data.time) ELSE ValueError
        with_date == IF "date" \in DOMAIN data /\ new_date.ok
                     THEN [appointment EXCEPT !.date = new_date.value]
                     ELSE appointment
        with_time == IF "time" \in DOMAIN data /\ new_time.ok
                     THEN [with_date EXCEPT !.time = new_time.value]
                     ELSE with_date
    IN
    IF "date" \in DOMAIN data /\ ~new_date.ok
    THEN Abort("Invalid date format. Use YYYY-MM-DD", appointment)
    ELSE IF "time" \in DOMAIN data /\ ~new_time.ok
    THEN Abort("Invalid time format. Use HH:MM:SS", with_date)
    ELSE Proceed([with_time EXCEPT
                     !.status = Get(data, "status", @),
                     !.service_id = Get(data, "service_id", @)])

UpdateInvoiceSession(invoice, data) ==
    Proceed([invoice EXCEPT
                !.total_amount = Get(data, "total_amount", @),
                !.payment_method = Get(data, "payment_method", @)])

UpdateSession(tbl, row, data) ==
    CASE tbl = "clients" -> UpdateClientSession(row, data)
      [] tbl = "stylists" -> UpdateStylistSession(row, data)
      [] tbl = "services" -> UpdateServiceSession(row, data)
      [] tbl = "appointments" -> UpdateAppointmentSession(row, data)
      [] tbl = "invoices" -> UpdateInvoiceSession(row, data)

\* Mutant: the session is flushed when the request ends, so what the handler
\* assigned before it returned reaches the table.
RemoveSessionFlushes(d, tbl, id, obj) == [d EXCEPT ![tbl][id] = obj]

\* End of a request that returned without commit or rollback: the scoped
\* session is removed and what it held unflushed is dropped.
RemoveSession(d, tbl, id, obj) == d

\* db.session.commit(); return row.to_json()   (the row is re-read)
CommitUpdate(d, tbl, id, loaded, obj) ==
    LET flush == FlushUpdate(d, tbl, id, loaded, obj) IN
    IF ~flush.ok THEN RollbackAnd500(d, flush.error)
    ELSE IF id \notin DOMAIN flush.db[tbl]
    THEN RollbackAnd500(flush.db, ObjectDeletedError)
    ELSE Reply(flush.db, 200, to_json(tbl, id, flush.db[tbl][id]))

\* A whole PUT handler run with no other request in between.
UpdateResult(d, tbl, id, data) ==
    IF id \notin DOMAIN d[tbl] THEN RollbackAnd500(d, NotFound)
    ELSE LET session == UpdateSession(tbl, d[tbl][id], data) IN
         IF session.status = 400
         THEN Reply(RemoveSession(d, tbl, id, session.obj), 400,
                    ErrorBody(session.error))
         ELSE CommitUpdate(d, tbl, id, d[tbl][id], session.obj)

DeletedMessage(tbl) ==
    CASE tbl = "clients" -> "Client deleted successfully"
      [] tbl = "stylists" -> "Stylist deleted successfully"
      [] tbl = "services" -> "Service deleted successfully"
      [] tbl = "appointments" -> "Appointment deleted successfully"
      [] tbl = "invoices" -> "Invoice deleted successfully"

\* A whole DELETE handler.
DeleteResult(d, tbl, id) ==
    IF id \notin DOMAIN d[tbl] THEN RollbackAnd500(d, NotFound)
    ELSE LET flush == FlushDelete(d, tbl, id) IN
         IF flush.ok THEN Reply(flush.db, 200, [message |-> DeletedMessage(tbl)])
         ELSE RollbackAnd500(d, flush.error)

\* A whole GET handler.
ListResult(d, tbl) == Reply(d, 200, QueryAll(d, tbl))

\* ------------------------------------------------------------ request bodies
Ids == 1..MaxId

ClientCreateBodies ==
    {[name |-> "Ann", phone |-> "555-1111", email |-> "a@b.co"],
     [name |-> "Ann", phone |-> "555-1111"],
     [name |-> "Ann", phone |-> "555-CALL", email |-> "not-an-email"],
     [name |-> "Ann", phone |-> "555-CALL", email |-> "a@b.co"],
     [name |-> "", phone |-> "", email |-> "a@b.co"]}

ClientUpdateBodies ==
    {[name |-> "Ann", phone |-> "555-2222"],
     [name |-> "Bob", phone |-> "555-1111"],
     [email |-> "not-an-email"],
     [phone |-> "555-CALL"],
     [name |-> None],
     [email |-> "c@d.io", created_at |-> 0]}

StylistCreateBodies ==
    {[name |-> "Bo", specialty |-> "Color", email |-> "c@d.io", phone |-> "555-2222"],
     [name |-> "Bo", specialty |-> "Color", email |-> "c@d.io", phone |-> "555-2222",
      portfolio_images |-> <<"a.png">>],
     [name |-> "Bo", email |-> "c@d.io", phone |-> "555-2222"],
     [name |-> "Bo", specialty |-> "Color", email |-> "not-an-email",
      phone |-> "555-2222"],
     [name |-> "Bo", specialty |-> "Color", email |-> "not-an-email",
      phone |-> "555-CALL"],
     [email |-> "not-an-email", phone |-> "555-CALL"]}

StylistUpdateBodies ==
    {[name |-> "Bo", specialty |-> "Cut"],
     [name |-> "Cy", specialty |-> "Color"],
     [portfolio_images |-> <<"b.png">>],
     [phone |-> "555-CALL"],
     [name |-> None]}

ServiceCreateBodies ==
    {[name |-> "Cut", duration |-> 30, price |-> 40],
     [name |-> "Cut", duration |-> 0, price |-> 40],
     [name |-> "Cut", duration |-> 30]}

ServiceUpdateBodies ==
    {[name |-> "Cut", price |-> 50],
     [name |-> "Trim", price |-> 40],
     [name |-> None]}

AppointmentCreateBodies ==
    {[client_id |-> 1, stylist_id |-> 1, service_id |-> 1,
      date |-> "2024-06-01", time |-> "10:00:00"],
     [client_id |-> 2, stylist_id |-> 1, service_id |-> 1,
      date |-> "2024-6-1", time |-> "9:5:3", status |-> "done"],
     [client_id |-> 1, stylist_id |-> 1, service_id |-> 1,
      date |-> "15-03-2024", time |-> "10:00:00"],
     [client_id |-> 1, stylist_id |-> 1, service_id |-> 1,
      date |-> "2024-06-01", time |-> "2:30 PM"],
     [client_id |-> 0, stylist_id |-> 1, service_id |-> 1,
      date |-> "2024-06-01", time |-> "10:00:00"]}

AppointmentUpdateBodies ==
    {[date |-> "2024-6-1"],
     [date |-> "2024-07-02", time |-> "2:30 PM"],
     [status |-> "done", time |-> "10:00:00", client_id |-> 2],
     [status |-> "booked", time |-> "11:30:00"],
     [service_id |-> NoneNum]}

InvoiceCreateBodies ==
    {[appointment_id |-> 1, total_amount |-> 40, payment_method |-> "card"],
     [appointment_id |-> 2, total_amount |-> 40, payment_method |-> "card"],
     [appointment_id |-> 1, total_amount |-> 0, payment_method |-> "card"],
     [appointment_id |-> 1, total_amount |-> 40]}

InvoiceUpdateBodies ==
    {[total_amount |-> 50, payment_method |-> "card"],
     [total_amount |-> 40, payment_method |-> "cash", paid_at |-> 0],
     [total_amount |-> NoneNum],
     [appointment_id |-> 2]}

UpdateBodies(tbl) ==
    CASE tbl = "clients" -> ClientUpdateBodies
      [] tbl = "stylists" -> StylistUpdateBodies
      [] tbl = "services" -> ServiceUpdateBodies
      [] tbl = "appointments" -> AppointmentUpdateBodies
      [] tbl = "invoices" -> InvoiceUpdateBodies

NoBody == <<>>

\* ------------------------------------------------------------------ actions
Workers == {1, 2}

Idle == [pc |-> "idle"]

EmptyDb == [t \in Tables |-> <<>>]

Init ==
    /\ db = EmptyDb
    /\ now = 0
    /\ req = [method |-> "NONE", table |-> "", id |-> 0, data |-> NoBody]
    /\ resp = [status |-> 0, body |-> NoBody]
    /\ workers = [w \in Workers |-> Idle]

Request(method, tbl, id, data) ==
    [method |-> method, table |-> tbl, id |-> id, data |-> data]

\* One request handled from its arrival to its response; utcnow() reads
\* the time of arrival.
Serve(r, out) ==
    /\ now < MaxClock
    /\ now' = now + 1
    /\ req' = r
    /\ db' = out.db
    /\ resp' = out.resp
    /\ UNCHANGED workers

Create(tbl, data, out) ==
    /\ NextId(db[tbl]) <= MaxId
    /\ Serve(Request("POST", tbl, 0, data), out)

get_all_clients == Serve(Request("GET", "clients", 0, NoBody), ListResult(db, "clients"))

create_client(data) == Create("clients", data, CreateClientResult(db, now + 1, data))

update_client(client_id, data) ==
    Serve(Request("PUT", "clients", client_id, data),
          UpdateResult(db, "clients", client_id, data))

delete_client(client_id) ==
    Serve(Request("DELETE", "clients", client_id, NoBody),
          DeleteResult(db, "clients", client_id))

get_all_stylists == Serve(Request("GET", "stylists", 0, NoBody), ListResult(db, "stylists"))

create_stylist(data) == Create("stylists", data, CreateStylistResult(db, now + 1, data))

update_stylist(stylist_id, data) ==
    Serve(Request("PUT", "stylists", stylist_id, data),
          UpdateResult(db, "stylists", stylist_id, data))

delete_stylist(stylist_id) ==
    Serve(Request("DELETE", "stylists", stylist_id, NoBody),
          DeleteResult(db, "stylists", stylist_id))

get_all_services == Serve(Request("GET", "services", 0, NoBody), ListResult(db, "services"))

create_service(data) == Create("services", data, CreateServiceResult(db, now + 1, data))

update_service(service_id, data) ==
    Serve(Request("PUT", "services", service_id, data),
          UpdateResult(db, "services", service_id, data))

delete_service(service_id) ==
    Serve(Request("DELETE", "services", service_id, NoBody),
          DeleteResult(db, "services", service_id))

get_all_appointments ==
    Serve(Request("GET", "appointments", 0, NoBody), ListResult(db, "appointments"))

create_appointment(data) ==
    Create("appointments", data, CreateAppointmentResult(db, now + 1, data))

update_appointment(appointment_id, data) ==
    Serve(Request("PUT", "appointments", appointment_id, data),
          UpdateResult(db, "appointments", appointment_id, data))

delete_appointment(appointment_id) ==
    Serve(Request("DELETE", "appointments", appointment_id, NoBody),
          DeleteResult(db, "appointments", appointment_id))

get_all_invoices == Serve(Request("GET", "invoices", 0, NoBody), ListResult(db, "invoices"))

create_invoice(data) == Create("invoices", data, CreateInvoiceResult(db, now + 1, data))

update_invoice(invoice_id, data) ==
    Serve(Request("PUT", "invoices", invoice_id, data),
          UpdateResult(db, "invoices", invoice_id, data))

delete_invoice(invoice_id) ==
    Serve(Request("DELETE", "invoices", invoice_id, NoBody),
          DeleteResult(db, "invoices", invoice_id))

Next ==
    \/ get_all_clients
    \/ \E data \in ClientCreateBodies : create_client(data)
    \/ \E id \in Ids, data \in ClientUpdateBodies : update_client(id, data)
    \/ \E id \in Ids : delete_client(id)
    \/ get_all_stylists
    \/ \E data \in StylistCreateBodies : create_stylist(data)
    \/ \E id \in Ids, data \in StylistUpdateBodies : update_stylist(id, data)
    \/ \E id \in Ids : delete_stylist(id)
    \/ get_all_services
    \/ \E data \in ServiceCreateBodies : create_service(data)
    \/ \E id \in Ids, data \in ServiceUpdateBodies : update_service(id, data)
    \/ \E id \in Ids : delete_service(id)
    \/ get_all_appointments
    \/ \E data \in AppointmentCreateBodies : create_appointment(data)
    \/ \E id \in Ids, data \in AppointmentUpdateBodies : update_appointment(id, data)
    \/ \E id \in Ids : delete_appointment(id)
    \/ get_all_invoices
    \/ \E data \in InvoiceCreateBodies : create_invoice(data)
    \/ \E id \in Ids, data \in InvoiceUpdateBodies : update_invoice(id, data)
    \/ \E id \in Ids : delete_invoice(id)

Spec == Init /\ [][Next]_vars

\* ------------------------------------------------ overlapping PUT requests
\* The server answers each request in its own thread with its own session.
\* A PUT handler reads the row (get_or_404), changes its session object and
\* later commits: another request may commit in between.

\* get_or_404, validation and the assignments to the session object.
UpdateBegin(w, tbl, id, data) ==
    /\ now < MaxClock
    /\ now' = now + 1
    /\ workers[w].pc # "commit"
    /\ IF id \in DOMAIN db[tbl] /\ UpdateSession(tbl, db[tbl][id], data).status = 0
       THEN /\ workers' = [workers EXCEPT ![w] =
                   [pc |-> "commit", table |-> tbl, id |-> id, data |-> data,
                    loaded |-> db[tbl][id],
                    obj |-> UpdateSession(tbl, db[tbl][id], data).obj]]
            /\ UNCHANGED <<db, req, resp>>
       ELSE /\ workers' = [workers EXCEPT ![w] = Idle]
            /\ req' = Request("PUT", tbl, id, data)
            /\ db' = UpdateResult(db, tbl, id, data).db
            /\ resp' = UpdateResult(db, tbl, id, data).resp

\* db.session.commit() and the response.
UpdateCommit(w) ==
    /\ workers[w].pc = "commit"
    /\ LET me == workers[w]
           out == CommitUpdate(db, me.table, me.id, me.loaded, me.obj)
       IN /\ db' = out.db
          /\ resp' = out.resp
          /\ req' = Request("PUT", me.table, me.id, me.data)
          /\ workers' = [workers EXCEPT ![w] =
                 [pc |-> "done", table |-> me.table, id |-> me.id,
                  data |-> me.data, loaded |-> me.loaded,
                  status |-> out.resp.status]]
    /\ UNCHANGED now

NextConc ==
    \/ \E data \in ClientCreateBodies : create_client(data)
    \/ \E data \in StylistCreateBodies : create_stylist(data)
    \/ \E data \in ServiceCreateBodies : create_service(data)
    \/ \E data \in AppointmentCreateBodies : create_appointment(data)
    \/ \E data \in InvoiceCreateBodies : create_invoice(data)
    \/ \E w \in Workers, tbl \in Tables, id \in Ids :
          \E data \in UpdateBodies(tbl) : UpdateBegin(w, tbl, id, data)
    \/ \E w \in Workers : UpdateCommit(w)

SpecConc == Init /\ [][NextConc]_vars

\* ================================================================== claims
\* The request a step answers is req', its response resp'; db is the store
\* before the step and db' the store after it.

Range(s) == {s[i] : i \in DOMAIN s}

\* The required_fields list each POST handler passes to the check.
RequiredFields(tbl) ==
    CASE tbl = "clients" -> <<"name", "phone", "email">>
      [] tbl = "stylists" -> <<"name", "specialty", "email", "phone">>
      [] tbl = "services" -> <<"name", "duration", "price">>
      [] tbl = "appointments" ->
             <<"client_id", "stylist_id", "service_id", "date", "time">>
      [] tbl = "invoices" -> <<"appointment_id", "total_amount", "payment_method">>

\* The fields each PUT handler assigns.
MutableFields(tbl) ==
    CASE tbl = "clients" -> {"name", "phone", "email"}
      [] tbl = "stylists" ->
             {"name", "specialty", "email", "phone", "portfolio_images"}
      [] tbl = "services" -> {"name", "duration", "price"}
      [] tbl = "appointments" -> {"date", "time", "status", "service_id"}
      [] tbl = "invoices" -> {"total_amount", "payment_method"}

Present(data, field) == field \in DOMAIN data /\ ~Falsy(field, data[field])

MissingFields(tbl, data) ==
    {field \in Range(RequiredFields(tbl)) : ~Present(data, field)}

\* The format checks a body fails, by the message of the check.
FormatFailures(tbl, data) ==
    {msg \in {"Invalid email format", "Invalid phone format",
              "Invalid date format. Use YYYY-MM-DD",
              "Invalid time format. Use HH:MM:SS"} :
        \/ /\ msg = "Invalid email format"
           /\ tbl \in {"clients", "stylists"}
           /\ Present(data, "email")
           /\ ~EmailMatches(BeforeDollar(Chars(data.email)))
        \/ /\ msg = "Invalid phone format"
           /\ tbl \in {"clients", "stylists"}
           /\ Present(data, "phone")
           /\ ~PhoneMatches(Chars(data.phone))
        \/ /\ msg = "Invalid date format. Use YYYY-MM-DD"
           /\ tbl = "appointments"
           /\ Present(data, "date")
           /\ ~strptime_date(data.date).ok
        \/ /\ msg = "Invalid time format. Use HH:MM:SS"
           /\ tbl = "appointments"
           /\ Present(data, "time")
           /\ ~strptime_time(data.time).ok}

ValidationMessages(tbl, data) ==
    {MissingRequired(field) : field \in MissingFields(tbl, data)}
        \cup FormatFailures(tbl, data)

FailsValidation(tbl, data) == ValidationMessages(tbl, data) # {}

IsPost == req'.method = "POST"
IsPut == req'.method = "PUT"
IsDelete == req'.method = "DELETE"
TargetExists == req'.id \in DOMAIN db[req'.table]

\* C1: an Update or a Delete whose id matches no row ends with 404, not
\* with 500, and leaves every table unchanged.
C1_NotFoundIs404 ==
    [][((IsPut \/ IsDelete) /\ ~TargetExists)
          => (resp'.status = 404 /\ db' = db)]_vars

Dangling(d, data) ==
    \E fk \in ForeignKeys("appointments") :
        Get(data, fk.col, 0) \notin DOMAIN d[fk.ref]

\* C2: a Create Appointment whose client_id, stylist_id or service_id
\* matches no row of the referenced table never persists an Appointment.
C2_DanglingNeverPersisted ==
    [][(IsPost /\ req'.table = "appointments" /\ Dangling(db, req'.data))
          => db'.appointments = db.appointments]_vars

\* C3: a Delete on an existing row succeeds and removes exactly that row,
\* every other row of every table staying as it was, also when the row is
\* a Client, Stylist or Service with dependent Appointments.
C3_DeleteRemovesExactlyThatRow ==
    [][(IsDelete /\ TargetExists)
          => /\ resp'.status = 200
             /\ db' = [db EXCEPT ![req'.table] = Remove(@, req'.id)]]_vars

InvoicesUnique(d) ==
    \A i, j \in DOMAIN d.invoices :
        d.invoices[i].appointment_id = d.invoices[j].appointment_id => i = j

DuplicateInvoice(d, data) ==
    /\ "appointment_id" \in DOMAIN data
    /\ \E i \in DOMAIN d.invoices :
          d.invoices[i].appointment_id = data.appointment_id

\* C4: no two Invoice rows ever share an appointment_id; a Create Invoice
\* whose appointment_id an existing Invoice holds is rejected and leaves
\* the invoices table unchanged.
C4_InvoicePerAppointmentUnique ==
    [][/\ InvoicesUnique(db')
       /\ (IsPost /\ req'.table = "invoices" /\ DuplicateInvoice(db, req'.data))
             => (resp'.status \in {400, 500} /\ db'.invoices = db.invoices)]_vars

C4_Witness ==
    /\ req.method = "POST"
    /\ req.table = "invoices"
    /\ resp.status = 500
    /\ resp.body.error = UniqueError
    /\ DuplicateInvoice(db, req.data)

Submitted(field, v) == IF field \in {"date", "time"} THEN Chars(v) ELSE v

OtherRowsKept(tbl, id) ==
    /\ \A t \in Tables \ {tbl} : db'[t] = db[t]
    /\ DOMAIN db'[tbl] = DOMAIN db[tbl]
    /\ \A i \in DOMAIN db[tbl] \ {id} : db'[tbl][i] = db[tbl][i]

\* C6 as stated: after a successful Update every field whose key is in the
\* body equals the submitted value, every other field keeps its value, and
\* no other row changes.
C6_EveryPresentKeyOverwrites ==
    [][(IsPut /\ resp'.status = 200)
          => LET tbl == req'.table
                 id == req'.id
                 before == to_json(tbl, id, db[tbl][id])
                 after == to_json(tbl, id, db'[tbl][id])
             IN /\ \A field \in DOMAIN after :
                      IF field \in DOMAIN req'.data
                      THEN after[field] = Submitted(field, req'.data[field])
                      ELSE after[field] = before[field]
                /\ OtherRowsKept(tbl, id)]_vars

\* The value a PUT stores for a submitted one: date and time are parsed.
Stored(field, v) ==
    IF field = "date" THEN strptime_date(v).value
    ELSE IF field = "time" THEN strptime_time(v).value
    ELSE v

\* C6 as amended: after a successful Update, run with no other request in
\* between, every field the handler assigns (MutableFields) whose key is in
\* the body holds the submitted value - a date or time as parsed, so
\* "2024-6-1" is stored and returned as 2024-06-01 -, every other field,
\* also one whose key is in the body, keeps its value, and no other row
\* changes.
C6_MutableKeysOverwrite ==
    [][(IsPut /\ resp'.status = 200)
          => LET tbl == req'.table
                 id == req'.id
                 before == db[tbl][id]
                 after == db'[tbl][id]
             IN /\ DOMAIN after = DOMAIN before
                /\ \A field \in DOMAIN after :
                      IF field \in DOMAIN req'.data \cap MutableFields(tbl)
                      THEN after[field] = Stored(field, req'.data[field])
                      ELSE after[field] = before[field]
                /\ resp'.body = to_json(tbl, id, after)
                /\ OtherRowsKept(tbl, id)]_vars

C6_Witness ==
    /\ req.method = "PUT"
    /\ req.table = "appointments"
    /\ resp.status = 200
    /\ "client_id" \in DOMAIN req.data
    /\ "status" \in DOMAIN req.data
    /\ "date" \notin DOMAIN req.data
    /\ db.appointments[req.id].client_id # req.data.client_id
    /\ db.appointments[req.id].status = req.data.status

\* The format checks of the PUT handlers run on the keys that are present.
UpdateFailsValidation(tbl, data) ==
    \/ /\ tbl \in {"clients", "stylists"}
       /\ \/ Present(data, "email") /\ ~EmailMatches(BeforeDollar(Chars(data.email)))
          \/ Present(data, "phone") /\ ~PhoneMatches(Chars(data.phone))
    \/ /\ tbl = "appointments"
       /\ \/ "date" \in DOMAIN data /\ ~strptime_date(data.date).ok
          \/ "time" \in DOMAIN data /\ ~strptime_time(data.time).ok

HasDependents(d, tbl, id) ==
    \/ tbl = "clients" /\ \E a \in DOMAIN d.appointments : d.appointments[a].client_id = id
    \/ tbl = "stylists" /\ \E a \in DOMAIN d.appointments : d.appointments[a].stylist_id = id
    \/ tbl = "services" /\ \E a \in DOMAIN d.appointments : d.appointments[a].service_id = id
    \/ tbl = "appointments" /\ \E i \in DOMAIN d.invoices : d.invoices[i].appointment_id = id

\* A request that passes validation and whose commit the store refuses.
CommitFails(d, r) ==
    \/ /\ r.method = "POST"
       /\ ~FailsValidation(r.table, r.data)
       /\ r.table = "invoices"
       /\ DuplicateInvoice(d, r.data)
    \/ /\ r.method = "PUT"
       /\ r.id \in DOMAIN d[r.table]
       /\ ~UpdateFailsValidation(r.table, r.data)
       /\ \E field \in DOMAIN r.data \cap MutableFields(r.table) \cap NotNull(r.table) :
             IsNull(field, r.data[field])
    \/ /\ r.method = "DELETE"
       /\ r.id \in DOMAIN d[r.table]
       /\ HasDependents(d, r.table, r.id)

\* C7: a Create, Update or Delete that passes validation and whose commit
\* fails (NOT NULL, UNIQUE) is answered 500 with the failure's description
\* and the store holds exactly what it held before the request.
C7_FailedCommitLeavesStore ==
    [][/\ CommitFails(db, req')
          => /\ resp'.status = 500
             /\ resp'.body.error \in {NotNullError, UniqueError}
             /\ db' = db
       /\ resp'.status = 500 => db' = db]_vars

C7_Witness ==
    /\ req.method = "PUT"
    /\ req.id \in DOMAIN db[req.table]
    /\ "name" \in DOMAIN req.data
    /\ req.data.name = None
    /\ resp.status = 500
    /\ resp.body.error = NotNullError

\* The projection a Create is expected to return for a valid body, with
\* the defaults of the omitted optional fields; date_text and time_text are
\* the expected rendering of the date and time fields.
ExpectedProjection(tbl, data, id, t, date_text, time_text) ==
    CASE tbl = "clients" ->
             [id |-> id, name |-> data.name, phone |-> data.phone,
              email |-> data.email, created_at |-> t]
      [] tbl = "stylists" ->
             [id |-> id, name |-> data.name, specialty |-> data.specialty,
              email |-> data.email, phone |-> data.phone,
              portfolio_images |-> Get(data, "portfolio_images", <<>>)]
      [] tbl = "services" ->
             [id |-> id, name |-> data.name, duration |-> data.duration,
              price |-> data.price]
      [] tbl = "appointments" ->
             [id |-> id, client_id |-> data.client_id,
              stylist_id |-> data.stylist_id, service_id |-> data.service_id,
              date |-> date_text,
              time |-> time_text,
              status |-> Get(data, "status", "booked")]
      [] tbl = "invoices" ->
             [id |-> id, appointment_id |-> data.appointment_id,
              total_amount |-> data.total_amount,
              payment_method |-> data.payment_method, paid_at |-> t]

\* A date or time in the form isoformat() gives the parsed value.
Canonical(field, v) ==
    IF field = "date"
    THEN (IF strptime_date(v).ok THEN date_isoformat(strptime_date(v).value) ELSE <<>>)
    ELSE (IF strptime_time(v).ok THEN time_isoformat(strptime_time(v).value) ELSE <<>>)

Listed(d, tbl, projection) ==
    \E k \in DOMAIN QueryAll(d, tbl) : QueryAll(d, tbl)[k] = projection

ValidCreate == IsPost /\ ~FailsValidation(req'.table, req'.data)

\* A row stays listed, with the same projection, over every step that is
\* not an Update or a Delete of that row.
RowsStayListed ==
    \A tbl \in Tables : \A i \in DOMAIN db[tbl] :
        ~((IsPut \/ IsDelete) /\ req'.table = tbl /\ req'.id = i)
            => Listed(db', tbl, to_json(tbl, i, db[tbl][i]))

C9_TimestampsSetOnce ==
    [][/\ \A i \in DOMAIN db.clients \cap DOMAIN db'.clients :
             db'.clients[i].created_at = db.clients[i].created_at
       /\ \A i \in DOMAIN db.invoices \cap DOMAIN db'.invoices :
             db'.invoices[i].paid_at = db.invoices[i].paid_at
       /\ \A i \in DOMAIN db'.clients \ DOMAIN db.clients :
             db'.clients[i].created_at = now'
       /\ \A i \in DOMAIN db'.invoices \ DOMAIN db.invoices :
             db'.invoices[i].paid_at = now']_vars

C9_Witness ==
    /\ req.method = "PUT"
    /\ req.table = "clients"
    /\ resp.status = 200
    /\ "created_at" \in DOMAIN req.data
    /\ db.clients[req.id].created_at # req.data.created_at
    /\ db.clients[req.id].email = req.data.email

\* Two PUT requests on one row that both read the same row values and both
\* committed with success.  Nothing else writes the row after the later of
\* the two reads: a third PUT would take the place of one of the two.
Raced ==
    /\ workers[1].pc = "done" /\ workers[2].pc = "done"
    /\ workers[1].table = workers[2].table
    /\ workers[1].id = workers[2].id
    /\ workers[1].loaded = workers[2].loaded
    /\ workers[1].status = 200 /\ workers[2].status = 200
    /\ workers[1].id \in DOMAIN db[workers[1].table]

\* The row a PUT with this body leaves when it runs alone on `row`.
Alone(tbl, row, data) == UpdateSession(tbl, row, data).obj

\* C10 as stated: after two concurrent Updates of one row the stored row is
\* the row one of the two serial orders of the requests produces.
C10_SerialOutcome ==
    Raced =>
        LET tbl == workers[1].table
            r0 == workers[1].loaded
            d1 == workers[1].data
            d2 == workers[2].data
        IN db[tbl][workers[1].id] \in
               {Alone(tbl, Alone(tbl, r0, d1), d2),
                Alone(tbl, Alone(tbl, r0, d2), d1)}

\* C10 as amended: each request's UPDATE lands as a whole, and after two
\* concurrent Updates of one row every field holds: the value it had, if
\* neither request changes it; the value of the one request that changes
\* it, if only one does - also when the other request supplied the field
\* with the value it read -; the value of the request that committed last,
\* if both change it.  A field only one request supplied is never lost, but
\* the row need not be the outcome of either serial order.
C10_FieldwiseLastWrite ==
    Raced =>
        LET tbl == workers[1].table
            r0 == workers[1].loaded
            o1 == Alone(tbl, r0, workers[1].data)
            o2 == Alone(tbl, r0, workers[2].data)
            final == db[tbl][workers[1].id]
            both == {col \in DOMAIN r0 : o1[col] # r0[col] /\ o2[col] # r0[col]}
        IN /\ DOMAIN final = DOMAIN r0
           /\ \A col \in DOMAIN r0 \ both :
                 final[col] = IF o1[col] # r0[col] THEN o1[col]
                              ELSE IF o2[col] # r0[col] THEN o2[col]
                              ELSE r0[col]
           /\ \/ \A col \in both : final[col] = o1[col]
              \/ \A col \in both : final[col] = o2[col]

C10_Witness ==
    /\ Raced
    /\ LET tbl == workers[1].table
           r0 == workers[1].loaded
           o1 == Alone(tbl, r0, workers[1].data)
           o2 == Alone(tbl, r0, workers[2].data)
       IN /\ o1 # r0 /\ o2 # r0
          /\ DOMAIN workers[1].data = DOMAIN workers[2].data
          /\ db[tbl][workers[1].id] \notin {o1, o2}

\* An Update Appointment request whose body makes the handler return 400.
AppointmentUpdateRejected(data) ==
    \/ "date" \in DOMAIN data /\ ~strptime_date(data.date).ok
    \/ "time" \in DOMAIN data /\ ~strptime_time(data.time).ok

\* C11: an Update Appointment that fails validation is answered 400 and
\* leaves every table, the stored Appointment included, as it was - also
\* when the body carries a parsable date and a malformed time, the date
\* being assigned before the time is parsed -, and a List of appointments
\* after it returns what a List before it returned.
C11_RejectedUpdateKeepsAppointment ==
    [][(IsPut /\ req'.table = "appointments" /\ TargetExists
          /\ AppointmentUpdateRejected(req'.data))
          => /\ resp'.status = 400
             /\ db' = db
             /\ db'.appointments[req'.id] = db.appointments[req'.id]
             /\ QueryAll(db', "appointments") = QueryAll(db, "appointments")]_vars

C11_Witness ==
    /\ req.method = "PUT"
    /\ req.table = "appointments"
    /\ req.id \in DOMAIN db.appointments
    /\ "date" \in DOMAIN req.data /\ "time" \in DOMAIN req.data
    /\ strptime_date(req.data.date).ok
    /\ ~strptime_time(req.data.time).ok
    /\ resp.status = 400
    /\ resp.body = ErrorBody("Invalid time format. Use HH:MM:SS")
    /\ db.appointments[req.id].date # strptime_date(req.data.date).value

\* The message of the first check a Create Client or Create Stylist body
\* fails: the required fields in their listed order, then the email
\* format, then the phone format; NoError when it passes them all.
FirstFailure(tbl, data) ==
    LET fields == RequiredFields(tbl)
        missing == {i \in DOMAIN fields : ~Present(data, fields[i])}
        formats == FormatFailures(tbl, data)
    IN IF missing # {}
       THEN MissingRequired(fields[CHOOSE i \in missing : \A j \in missing : i <= j])
       ELSE IF "Invalid email format" \in formats THEN "Invalid email format"
       ELSE IF "Invalid phone format" \in formats THEN "Invalid phone format"
       ELSE NoError

\* C12: a Create Client or Create Stylist that fails a check is answered 400
\* with exactly the message of the first check it fails - required fields
\* in their listed order, then email format, then phone format - and
\* persists nothing; a row is added only when every check passes.
C12_FirstFailingCheckAnswers ==
    [][(IsPost /\ req'.table \in {"clients", "stylists"})
          => LET msg == FirstFailure(req'.table, req'.data) IN
             /\ msg # NoError
                   => /\ resp'.status = 400
                      /\ resp'.body = ErrorBody(msg)
                      /\ db' = db
             /\ db' # db
                   => /\ msg = NoError
                      /\ resp'.status = 201]_vars

C12_Witness ==
    /\ req.method = "POST"
    /\ req.table = "stylists"
    /\ MissingFields("stylists", req.data) = {}
    /\ FormatFailures("stylists", req.data)
          = {"Invalid email format", "Invalid phone format"}
    /\ resp.status = 400
    /\ resp.body = ErrorBody("Invalid email format")
====
